---- MODULE Spec2Model ----
(***************************************************************************)
(* A model of src/update_version.py: one run of the script derives a       *)
(* version string from three git queries, writes it to version.txt and     *)
(* stages it, then rewrites the label of the "../boxmux" folder in the     *)
(* workspace file.  Strings are TLA+ strings; a JSON object is a sequence  *)
(* of <<key, value>> pairs in insertion order, as a Python dict keeps it.  *)
(***************************************************************************)
EXTENDS Integers, Sequences, FiniteSets, TLC

(* ------------------------------------------------------------------ *)
(* Bounds of the model                                                 *)
(* ------------------------------------------------------------------ *)

\* Longest folders array of an initial workspace document.
MaxFolders == 2

\* How many times update_folder_label is called in succession in SpecLabel.
MaxCalls == 2

(* ------------------------------------------------------------------ *)
(* Strings: strip(), int(), str.format of an int, re.findall           *)
(* ------------------------------------------------------------------ *)

Whitespace == {" ", "\t", "\n", "\r"}

DigitChars == <<"0", "1", "2", "3", "4", "5", "6", "7", "8", "9">>

Letters ==
    {"a", "b", "c", "d", "e", "f", "g", "h", "i", "j", "k", "l", "m",
     "n", "o", "p", "q", "r", "s", "t", "u", "v", "w", "x", "y", "z",
     "A", "B", "C", "D", "E", "F", "G", "H", "I", "J", "K", "L", "M",
     "N", "O", "P", "Q", "R", "S", "T", "U", "V", "W", "X", "Y", "Z"}

CharAt(s, i) == SubSeq(s, i, i)

IsDigit(c) == \E d \in DOMAIN DigitChars : DigitChars[d] = c

\* \w of the regular expression: letters, digits and the underscore.
IsWordChar(c) == IsDigit(c) \/ c \in Letters \/ c = "_"

DigitVal(c) == (CHOOSE d \in DOMAIN DigitChars : DigitChars[d] = c) - 1

RECURSIVE LStrip(_)
LStrip(s) ==
    IF Len(s) > 0 /\ CharAt(s, 1) \in Whitespace THEN LStrip(Tail(s)) ELSE s

RECURSIVE RStrip(_)
RStrip(s) ==
    IF Len(s) > 0 /\ CharAt(s, Len(s)) \in Whitespace
    THEN RStrip(SubSeq(s, 1, Len(s) - 1))
    ELSE s

\* bytes.strip(): surrounding whitespace removed.
Strip(s) == RStrip(LStrip(s))

\* The strings int() accepts among the outputs modelled: one or more digits.
IsIntLiteral(s) == Len(s) > 0 /\ \A i \in 1..Len(s) : IsDigit(CharAt(s, i))

RECURSIVE ParseInt(_)
ParseInt(s) ==
    IF Len(s) = 0 THEN 0
    ELSE 10 * ParseInt(SubSeq(s, 1, Len(s) - 1)) + DigitVal(CharAt(s, Len(s)))

\* "{}".format(n) of a non-negative int: its decimal digits.
RECURSIVE IntStr(_)
IntStr(n) ==
    IF n < 10 THEN DigitChars[n + 1]
    ELSE IntStr(n \div 10) \o DigitChars[(n % 10) + 1]

\* re.findall(r'\b\d+\b', s): the maximal runs of word characters of s that
\* consist of digits only, in order.  run is the word run being read.
RECURSIVE FindAllFrom(_, _)
FindAllFrom(s, run) ==
    LET closed == IF IsIntLiteral(run) THEN <<run>> ELSE <<>>
    IN  IF Len(s) = 0 THEN closed
        ELSE IF IsWordChar(CharAt(s, 1))
             THEN FindAllFrom(Tail(s), run \o CharAt(s, 1))
             ELSE closed \o FindAllFrom(Tail(s), "")

FindAllNumbers(s) == FindAllFrom(s, "")

RECURSIVE SumInts(_)
SumInts(tokens) ==
    IF Len(tokens) = 0 THEN 0
    ELSE ParseInt(Head(tokens)) + SumInts(Tail(tokens))

(* ------------------------------------------------------------------ *)
(* Python dicts and the JSON document                                  *)
(* ------------------------------------------------------------------ *)

DictHas(d, k) == \E i \in DOMAIN d : d[i][1] = k

DictIndex(d, k) == CHOOSE i \in DOMAIN d : d[i][1] = k

DictGet(d, k) == d[DictIndex(d, k)][2]

\* d[k] = v: the value replaced in place, or the pair added last.
DictSet(d, k, v) ==
    IF DictHas(d, k)
    THEN [d EXCEPT ![DictIndex(d, k)] = <<k, v>>]
    ELSE Append(d, <<k, v>>)

\* dict(pairs) as json.load builds an object: a repeated key keeps its first
\* place and its last value.
RECURSIVE DictOf(_)
DictOf(pairs) ==
    IF Len(pairs) = 0 THEN <<>>
    ELSE LET last == pairs[Len(pairs)]
         IN  DictSet(DictOf(SubSeq(pairs, 1, Len(pairs) - 1)), last[1], last[2])

\* A JSON value of the documents modelled: a string, or an array of objects.
StrValue(s) == [t |-> "str", s |-> s, a |-> <<>>]

ArrValue(a) == [t |-> "arr", s |-> "", a |-> a]

LoadValue(v) ==
    IF v.t = "arr" THEN ArrValue([i \in DOMAIN v.a |-> DictOf(v.a[i])]) ELSE v

\* json.load of a well-formed text: every object becomes a dict.
JsonLoad(top) == DictOf([i \in DOMAIN top |-> <<top[i][1], LoadValue(top[i][2])>>])

\* json.dump: every dict written out, its keys in insertion order.
JsonDump(config) == config

(* ------------------------------------------------------------------ *)
(* update_folder_label: the scan and the update made in memory         *)
(* ------------------------------------------------------------------ *)

TargetPath == "../boxmux"

LabelPrefix == "boxmux v"

MakeLabel(new_version) == LabelPrefix \o new_version

\* Mutant of ScanFrom: the path read with a default, so that an entry without
\* a path key is passed over instead of raising.
RECURSIVE ScanFromSkipping(_, _)
ScanFromSkipping(folders, i) ==
    IF i > Len(folders) THEN [raised |-> FALSE, found |-> 0]
    ELSE IF DictHas(folders[i], "path") /\ DictGet(folders[i], "path") = TargetPath
         THEN [raised |-> FALSE, found |-> i]
    ELSE ScanFromSkipping(folders, i + 1)

\* The loop of lines 67-71 from entry i on: raised when it hits an entry with
\* no path key (KeyError), found the index of the first entry whose path is
\* the target (0 without one).
RECURSIVE ScanFrom(_, _)
ScanFrom(folders, i) ==
    IF i > Len(folders) THEN [raised |-> FALSE, found |-> 0]
    ELSE IF ~DictHas(folders[i], "path") THEN [raised |-> TRUE, found |-> 0]
    ELSE IF DictGet(folders[i], "path") = TargetPath
         THEN [raised |-> FALSE, found |-> i]
    ELSE ScanFrom(folders, i + 1)

\* Mutant of NewFolder: the new entry's path written without its "../".
NewFolderBarePath(label) == << <<"path", "boxmux">>, <<"name", label>> >>

NewFolder(label) == << <<"path", TargetPath>>, <<"name", label>> >>

\* Mutant of UpdateFolders: no break, every target entry renamed.
UpdateFoldersAllMatches(folders, label) ==
    IF ScanFrom(folders, 1).found > 0
    THEN [i \in DOMAIN folders |->
            IF DictHas(folders[i], "path") /\ DictGet(folders[i], "path") = TargetPath
            THEN DictSet(folders[i], "name", label)
            ELSE folders[i]]
    ELSE Append(folders, NewFolder(label))

\* Mutant of UpdateFolders: the new entry inserted first instead of appended.
UpdateFoldersPrepend(folders, label) ==
    LET scan == ScanFrom(folders, 1)
    IN  IF scan.found > 0
        THEN [folders EXCEPT ![scan.found] = DictSet(folders[scan.found], "name", label)]
        ELSE <<NewFolder(label)>> \o folders

\* Mutant of UpdateFolders: path_found never set, so a renamed array also
\* gets the new entry.
UpdateFoldersNoFlag(folders, label) ==
    LET scan == ScanFrom(folders, 1)
    IN  IF scan.found > 0
        THEN Append([folders EXCEPT ![scan.found] =
                        DictSet(folders[scan.found], "name", label)],
                    NewFolder(label))
        ELSE Append(folders, NewFolder(label))

UpdateFolders(folders, label) ==
    LET scan == ScanFrom(folders, 1)
    IN  IF scan.found > 0
        THEN [folders EXCEPT ![scan.found] = DictSet(folders[scan.found], "name", label)]
        ELSE Append(folders, NewFolder(label))

\* workspace_config['folders'] raises KeyError without the key; a folders value
\* that is no list raises in the loop body or at append.
ScanRaises(config) ==
    \/ ~DictHas(config, "folders")
    \/ DictGet(config, "folders").t # "arr"
    \/ ScanFrom(DictGet(config, "folders").a, 1).raised

UpdateConfig(config, label) ==
    DictSet(config, "folders",
            ArrValue(UpdateFolders(DictGet(config, "folders").a, label)))

(* ------------------------------------------------------------------ *)
(* The version string                                                  *)
(* ------------------------------------------------------------------ *)

\* s[1:]
DropFirst(s) == SubSeq(s, 2, Len(s))

\* "{}.{}.{}".format(major_version[1:], minor_version, patch_version)
FormatVersion(major, minor, patch) ==
    DropFirst(major) \o "." \o IntStr(minor) \o "." \o IntStr(patch)

\* Mutant of VersionLine: the newline left out.
VersionLineNoNewline(new_version) == new_version

\* "{}\n".format(new_version)
VersionLine(new_version) == new_version \o "\n"

\* Mutant of RevRange: the "v0" case left out.
RevRangeAlwaysTag(tag_version) == tag_version \o "..HEAD"

\* The rev-list argument of get_commit_count_since_tag.
RevRange(tag_version) ==
    IF tag_version = "v0" THEN "HEAD" ELSE tag_version \o "..HEAD"

(* ------------------------------------------------------------------ *)
(* The environment: the git repository and the files                   *)
(* ------------------------------------------------------------------ *)

\* A repository: its latest reachable tag ("" without one), the commits
\* reachable from head, those among them not reachable from the tag, and
\* the text of git log --pretty=tformat: --numstat.
Repos ==
    { [tag |-> "",    total |-> 0,  since |-> 0, log |-> ""],
      [tag |-> "",    total |-> 3,  since |-> 0, log |-> "1\t1\ta.py\n"],
      [tag |-> "v1",  total |-> 12, since |-> 5,
       log |-> "30\t10\ta.c\n\n2\t0\tpart_000\n"],
      [tag |-> "v0",  total |-> 7,  since |-> 2,
       log |-> "3\t0\tv2.txt\n-\t-\tlogo-1.png\n"],
      [tag |-> "v12", total |-> 20, since |-> 0, log |-> "\n"] }

Ran(out) == [status |-> "ok", out |-> out]

ExitNonZero == [status |-> "exit_nonzero", out |-> ""]

NotLaunchable == [status |-> "not_launchable", out |-> ""]

\* git describe --tags --abbrev=0
GitDescribe(r) == IF r.tag = "" THEN ExitNonZero ELSE Ran(r.tag \o "\n")

\* git rev-list --count <range>
GitRevListCount(r, range) ==
    IF range = "HEAD"
    THEN IF r.total = 0 THEN ExitNonZero ELSE Ran(IntStr(r.total) \o "\n")
    ELSE IF r.tag # "" /\ range = r.tag \o "..HEAD"
         THEN Ran(IntStr(r.since) \o "\n")
         ELSE ExitNonZero

\* git log --pretty=tformat: --numstat
GitLog(r) == IF r.total = 0 THEN ExitNonZero ELSE Ran(r.log)

\* Output of a command that ran and exited 0 without printing a number.
Garbled == Ran("warning: x\n")

\* The entries of the initial folders arrays, as written in the file.
Entries ==
    { << <<"path", TargetPath>>, <<"name", "boxmux v0.0.1">> >>,
      << <<"uri", "u">>, <<"path", TargetPath>> >>,
      << <<"path", "../other">>, <<"name", "other">> >>,
      << <<"name", "stray">> >>,
      << <<"path", "../other">>, <<"name", "dup">>, <<"path", TargetPath>> >> }

FolderArrays == UNION { [1..n -> Entries] : n \in 0..MaxFolders }

Settings == <<"settings", StrValue("{}")>>

\* A file on disk: absent, not JSON, a JSON text, or what a write that failed
\* after the file was opened left of it.
FileOf(kind, top) == [kind |-> kind, top |-> top]

WorkspaceFiles ==
    { FileOf("json", <<<<"folders", ArrValue(a)>>>>) : a \in FolderArrays }
    \cup { FileOf("json", <<Settings, <<"folders", ArrValue(a)>>>>) : a \in FolderArrays }
    \cup { FileOf("json", <<Settings>>),
           FileOf("json", <<<<"folders", StrValue("x")>>>>),
           FileOf("missing", <<>>),
           FileOf("malformed", <<>>) }

InitialVersionFiles == {"", "0.9.9\n"}

(* ------------------------------------------------------------------ *)
(* State                                                               *)
(* ------------------------------------------------------------------ *)

VARIABLES
    pc,               \* the statement the run is at
    repo,             \* the git repository the queries read
    major_version,    \* locals of __main__ ("" and -1 before assignment)
    minor_version,
    patch_version,
    full_version,
    version_file,     \* content of ./version.txt
    index,            \* content of version.txt staged in the git index
    workspace_file,   \* the workspace file on disk
    workspace_config, \* the document update_folder_label holds in memory
    calls,            \* the procedures called so far, with their argument
    io,               \* the commands run and files opened so far
    uv_result,        \* how update_version ended ("none" before)
    ufl_results,      \* how each call of update_folder_label ended
    ws_hist,          \* the workspace file at the start and after each call
    initial,          \* version_file and index at the start
    exit_status       \* -1 while running, then the status of the process

vars ==
    <<pc, repo, major_version, minor_version, patch_version, full_version,
      version_file, index, workspace_file, workspace_config, calls, io,
      uv_result, ufl_results, ws_hist, initial, exit_status>>

Call(fn, arg) == [fn |-> fn, arg |-> arg]

Io(op, arg) == [op |-> op, arg |-> arg]

Init ==
    /\ pc = "get_tag_version"
    /\ repo \in Repos
    /\ major_version = ""
    /\ minor_version = -1
    /\ patch_version = -1
    /\ full_version = ""
    /\ version_file \in InitialVersionFiles
    /\ index = version_file
    /\ workspace_file \in WorkspaceFiles
    /\ workspace_config = <<>>
    /\ calls = <<>>
    /\ io = <<>>
    /\ uv_result = "none"
    /\ ufl_results = <<>>
    /\ ws_hist = <<workspace_file>>
    /\ initial = [version_file |-> version_file, index |-> index]
    /\ exit_status = -1

(* ------------------------------------------------------------------ *)
(* Version Deriver                                                     *)
(* ------------------------------------------------------------------ *)

\* An exception no handler catches: the traceback is printed and the process
\* exits with status 1.
Uncaught ==
    /\ pc' = "exited"
    /\ exit_status' = 1

\* The exception a command raises: check_output and check_call raise
\* CalledProcessError on a non-zero exit and FileNotFoundError when the
\* program cannot be launched.
Raised(reply) ==
    IF reply.status = "exit_nonzero" THEN "CalledProcessError"
    ELSE IF reply.status = "not_launchable" THEN "FileNotFoundError"
    ELSE "none"

\* except subprocess.CalledProcessError, lines 13, 23 and 33.
QueryCatches(exc) == exc = "CalledProcessError"

\* Mutant of UpdateCatches: the narrow handler of the queries.
UpdateCatchesOnlyExit(exc) == exc = "CalledProcessError"

\* except Exception, lines 49 and 85.
UpdateCatches(exc) ==
    exc \in {"CalledProcessError", "FileNotFoundError", "OSError",
             "JSONDecodeError", "KeyError", "TypeError", "ValueError"}

\* get_tag_version, lines 10-14.
GetTagVersion ==
    /\ pc = "get_tag_version"
    /\ \E reply \in {GitDescribe(repo), NotLaunchable} :
         /\ io' = Append(io, Io("git describe", reply.status))
         /\ IF reply.status = "ok"
            THEN /\ major_version' = Strip(reply.out)
                 /\ pc' = "get_commit_count_since_tag"
                 /\ UNCHANGED exit_status
            ELSE IF QueryCatches(Raised(reply))
            THEN /\ major_version' = "v0"
                 /\ pc' = "get_commit_count_since_tag"
                 /\ UNCHANGED exit_status
            ELSE /\ Uncaught
                 /\ UNCHANGED major_version
    /\ calls' = Append(calls, Call("get_tag_version", ""))
    /\ UNCHANGED <<repo, minor_version, patch_version, full_version,
                   version_file, index, workspace_file, workspace_config,
                   uv_result, ufl_results, ws_hist, initial>>

\* get_commit_count_since_tag, lines 17-24.
GetCommitCountSinceTag ==
    /\ pc = "get_commit_count_since_tag"
    /\ \E reply \in {GitRevListCount(repo, RevRange(major_version)),
                     NotLaunchable, Garbled} :
         /\ io' = Append(io, Io("git rev-list --count " \o RevRange(major_version),
                                reply.status))
         /\ IF reply.status = "ok" /\ IsIntLiteral(Strip(reply.out))
            THEN /\ minor_version' = ParseInt(Strip(reply.out))
                 /\ pc' = "get_total_changes"
                 /\ UNCHANGED exit_status
            ELSE IF QueryCatches(IF reply.status = "ok" THEN "ValueError"
                                 ELSE Raised(reply))
            THEN /\ minor_version' = 0
                 /\ pc' = "get_total_changes"
                 /\ UNCHANGED exit_status
            ELSE /\ Uncaught
                 /\ UNCHANGED minor_version
    /\ calls' = Append(calls, Call("get_commit_count_since_tag", major_version))
    /\ UNCHANGED <<repo, major_version, patch_version, full_version,
                   version_file, index, workspace_file, workspace_config,
                   uv_result, ufl_results, ws_hist, initial>>

\* get_total_changes, lines 27-34.
GetTotalChanges ==
    /\ pc = "get_total_changes"
    /\ \E reply \in {GitLog(repo), NotLaunchable} :
         /\ io' = Append(io, Io("git log", reply.status))
         /\ IF reply.status = "ok"
            THEN /\ patch_version' = SumInts(FindAllNumbers(Strip(reply.out)))
                 /\ pc' = "format"
                 /\ UNCHANGED exit_status
            ELSE IF QueryCatches(Raised(reply))
            THEN /\ patch_version' = 0
                 /\ pc' = "format"
                 /\ UNCHANGED exit_status
            ELSE /\ Uncaught
                 /\ UNCHANGED patch_version
    /\ calls' = Append(calls, Call("get_total_changes", ""))
    /\ UNCHANGED <<repo, major_version, minor_version, full_version,
                   version_file, index, workspace_file, workspace_config,
                   uv_result, ufl_results, ws_hist, initial>>

\* Lines 94-95.
BuildVersion ==
    /\ pc = "format"
    /\ full_version' = FormatVersion(major_version, minor_version, patch_version)
    /\ pc' = "update_version"
    /\ UNCHANGED <<repo, major_version, minor_version, patch_version,
                   version_file, index, workspace_file, workspace_config,
                   calls, io, uv_result, ufl_results, ws_hist, initial,
                   exit_status>>

(* ------------------------------------------------------------------ *)
(* Artifact Updater: version.txt                                       *)
(* ------------------------------------------------------------------ *)

\* What a write that failed after open(path, "w") truncated the file can
\* leave of the text: any proper prefix.
TornTexts(text) == { SubSeq(text, 1, k) : k \in 0..(Len(text) - 1) }

\* Where the run goes when update_version raises exc: on to the next
\* statement of __main__ when the handler catches it.
AfterUpdateVersion(exc) ==
    IF UpdateCatches(exc)
    THEN /\ pc' = "update_folder_label"
         /\ UNCHANGED exit_status
    ELSE Uncaught

\* update_version, lines 37-44: the file opened for writing and written.
UpdateVersionWrite ==
    /\ pc = "update_version"
    /\ calls' = Append(calls, Call("update_version", full_version))
    /\ \E outcome \in {"ok", "open_fail", "write_fail"} :
         /\ io' = Append(io, Io("open_w version.txt", outcome))
         /\ IF outcome = "ok"
            THEN /\ version_file' = VersionLine(full_version)
                 /\ pc' = "uv_stage"
                 /\ UNCHANGED <<uv_result, exit_status>>
            ELSE /\ IF outcome = "open_fail"
                    THEN UNCHANGED version_file
                    ELSE version_file' \in TornTexts(VersionLine(full_version))
                 /\ uv_result' = outcome
                 /\ AfterUpdateVersion("OSError")
    /\ UNCHANGED <<repo, major_version, minor_version, patch_version,
                   full_version, index, workspace_file, workspace_config,
                   ufl_results, ws_hist, initial>>

\* update_version, lines 46-50: git add of the file just written.
UpdateVersionStage ==
    /\ pc = "uv_stage"
    /\ io' = Append(io, Io("git add version.txt", version_file))
    /\ \E reply \in {Ran(""), ExitNonZero, NotLaunchable} :
         IF reply.status = "ok"
         THEN /\ index' = version_file
              /\ uv_result' = "ok"
              /\ pc' = "update_folder_label"
              /\ UNCHANGED exit_status
         ELSE /\ UNCHANGED index
              /\ uv_result' = "stage_fail"
              /\ AfterUpdateVersion(Raised(reply))
    /\ UNCHANGED <<repo, major_version, minor_version, patch_version,
                   full_version, version_file, workspace_file,
                   workspace_config, calls, ufl_results, ws_hist, initial>>

(* ------------------------------------------------------------------ *)
(* Artifact Updater: the workspace label                               *)
(* ------------------------------------------------------------------ *)

\* update_folder_label ends with result: the local document is gone, and
\* the run goes on to the end of __main__ when no exception escapes.
UflReturns(result, exc) ==
    /\ ufl_results' = Append(ufl_results, result)
    /\ ws_hist' = Append(ws_hist, workspace_file')
    /\ workspace_config' = <<>>
    /\ IF exc = "none" \/ UpdateCatches(exc)
       THEN /\ pc' = "main_end"
            /\ UNCHANGED exit_status
       ELSE Uncaught

\* update_folder_label, lines 53-61: the file opened, read and parsed.
UflRead ==
    /\ pc = "update_folder_label"
    /\ calls' = Append(calls, Call("update_folder_label", full_version))
    /\ UNCHANGED workspace_file
    /\ \E readable \in BOOLEAN :
         IF workspace_file.kind = "missing"
         THEN /\ io' = Append(io, Io("open_r workspace", "missing"))
              /\ UflReturns("missing", "FileNotFoundError")
         ELSE IF ~readable
         THEN /\ io' = Append(io, Io("open_r workspace", "read_error"))
              /\ UflReturns("read_error", "OSError")
         ELSE IF workspace_file.kind # "json"
         THEN /\ io' = Append(io, Io("open_r workspace", "ok"))
              /\ UflReturns("parse_fail", "JSONDecodeError")
         ELSE /\ io' = Append(io, Io("open_r workspace", "ok"))
              /\ workspace_config' = JsonLoad(workspace_file.top)
              /\ pc' = "ufl_scan"
              /\ UNCHANGED <<ufl_results, ws_hist, exit_status>>
    /\ UNCHANGED <<repo, major_version, minor_version, patch_version,
                   full_version, version_file, index, uv_result, initial>>

\* update_folder_label, lines 63-79: the scan, and the update or the append.
UflScan ==
    /\ pc = "ufl_scan"
    /\ UNCHANGED workspace_file
    /\ IF ScanRaises(workspace_config)
       THEN UflReturns("scan_fail", "KeyError")
       ELSE /\ workspace_config' = UpdateConfig(workspace_config, MakeLabel(full_version))
            /\ pc' = "ufl_write"
            /\ UNCHANGED <<ufl_results, ws_hist, exit_status>>
    /\ UNCHANGED <<repo, major_version, minor_version, patch_version,
                   full_version, version_file, index, calls, io, uv_result,
                   initial>>

\* update_folder_label, lines 81-86: the file opened for writing and the
\* document dumped into it.
UflWrite ==
    /\ pc = "ufl_write"
    /\ \E outcome \in {"ok", "open_fail", "write_fail"} :
         /\ io' = Append(io, Io("open_w workspace", outcome))
         /\ workspace_file' =
              IF outcome = "ok" THEN FileOf("json", JsonDump(workspace_config))
              ELSE IF outcome = "open_fail" THEN workspace_file
              ELSE FileOf("torn", <<>>)
         /\ UflReturns(outcome, IF outcome = "ok" THEN "none" ELSE "OSError")
    /\ UNCHANGED <<repo, major_version, minor_version, patch_version,
                   full_version, version_file, index, calls, uv_result,
                   initial>>

\* The end of __main__: the interpreter exits with status 0.
ProcessExit ==
    /\ pc = "main_end"
    /\ pc' = "exited"
    /\ exit_status' = 0
    /\ UNCHANGED <<repo, major_version, minor_version, patch_version,
                   full_version, version_file, index, workspace_file,
                   workspace_config, calls, io, uv_result, ufl_results,
                   ws_hist, initial>>

Next ==
    \/ GetTagVersion
    \/ GetCommitCountSinceTag
    \/ GetTotalChanges
    \/ BuildVersion
    \/ UpdateVersionWrite
    \/ UpdateVersionStage
    \/ UflRead
    \/ UflScan
    \/ UflWrite
    \/ ProcessExit

Spec == Init /\ [][Next]_vars

(* ------------------------------------------------------------------ *)
(* update_folder_label called repeatedly                               *)
(* ------------------------------------------------------------------ *)

\* The repositories whose runs SpecLabel starts from.
LabelRepos == { r \in Repos : r.tag \in {"v1", "v12"} \/ r.total = 0 }

\* A run whose queries and whose update_version went without a fault, about
\* to call update_folder_label.
InitLabel ==
    /\ pc = "update_folder_label"
    /\ repo \in LabelRepos
    /\ major_version =
         (IF GitDescribe(repo).status = "ok"
          THEN Strip(GitDescribe(repo).out) ELSE "v0")
    /\ minor_version =
         (LET reply == GitRevListCount(repo, RevRange(major_version))
          IN  IF reply.status = "ok" THEN ParseInt(Strip(reply.out)) ELSE 0)
    /\ patch_version =
         (IF GitLog(repo).status = "ok"
          THEN SumInts(FindAllNumbers(Strip(GitLog(repo).out))) ELSE 0)
    /\ full_version = FormatVersion(major_version, minor_version, patch_version)
    /\ version_file = VersionLine(full_version)
    /\ index = version_file
    /\ workspace_file \in WorkspaceFiles
    /\ workspace_config = <<>>
    /\ calls = << Call("get_tag_version", ""),
                  Call("get_commit_count_since_tag", major_version),
                  Call("get_total_changes", ""),
                  Call("update_version", full_version) >>
    /\ io = << Io("git describe", GitDescribe(repo).status),
               Io("git rev-list --count " \o RevRange(major_version),
                  GitRevListCount(repo, RevRange(major_version)).status),
               Io("git log", GitLog(repo).status),
               Io("open_w version.txt", "ok"),
               Io("git add version.txt", version_file) >>
    /\ uv_result = "ok"
    /\ ufl_results = <<>>
    /\ ws_hist = <<workspace_file>>
    /\ \E old \in InitialVersionFiles :
         initial = [version_file |-> old, index |-> old]
    /\ exit_status = -1

\* update_folder_label(full_version) called once more, line 98 repeated.
CallAgain ==
    /\ pc = "main_end"
    /\ Len(ufl_results) < MaxCalls
    /\ pc' = "update_folder_label"
    /\ UNCHANGED <<repo, major_version, minor_version, patch_version,
                   full_version, version_file, index, workspace_file,
                   workspace_config, calls, io, uv_result, ufl_results,
                   ws_hist, initial, exit_status>>

NextLabel ==
    \/ UflRead
    \/ UflScan
    \/ UflWrite
    \/ CallAgain
    \/ ProcessExit

SpecLabel == InitLabel /\ [][NextLabel]_vars

(* ------------------------------------------------------------------ *)
(* Vocabulary of the properties                                        *)
(* ------------------------------------------------------------------ *)

\* The file holds a JSON document with a folders array.
HasFoldersArray(file) ==
    /\ file.kind = "json"
    /\ DictHas(JsonLoad(file.top), "folders")
    /\ DictGet(JsonLoad(file.top), "folders").t = "arr"

\* The folders array of the document the file holds.
FoldersOf(file) == DictGet(JsonLoad(file.top), "folders").a

IsTarget(entry) == DictHas(entry, "path") /\ DictGet(entry, "path") = TargetPath

TargetIndexes(folders) == { i \in DOMAIN folders : IsTarget(folders[i]) }

FirstTarget(folders) ==
    CHOOSE i \in TargetIndexes(folders) : \A j \in TargetIndexes(folders) : i <= j

\* entry with its name set to label and nothing else touched.
Renamed(entry, after, label) ==
    IF DictHas(entry, "name")
    THEN /\ Len(after) = Len(entry)
         /\ \A k \in DOMAIN entry :
              /\ after[k][1] = entry[k][1]
              /\ after[k][2] = (IF entry[k][1] = "name" THEN label ELSE entry[k][2])
    ELSE after = Append(entry, <<"name", label>>)

\* Every top-level key but folders is the same, in the same place.
SameOtherKeys(before, after) ==
    /\ Len(after) = Len(before)
    /\ \A k \in DOMAIN before :
         /\ after[k][1] = before[k][1]
         /\ before[k][1] # "folders" => after[k][2] = before[k][2]

\* Results of update_folder_label that are faults of the file system, not
\* consequences of the document.
IoFaults == {"read_error", "open_fail", "write_fail"}

CallReturned(n) == n \in DOMAIN ufl_results

FnNames == [i \in DOMAIN calls |-> calls[i].fn]

OpenedWorkspaceForWriting == \E i \in DOMAIN io : io[i].op = "open_w workspace"

VersionBuilt == pc \notin {"get_tag_version", "get_commit_count_since_tag",
                           "get_total_changes", "format"} /\ exit_status # 1

(* ------------------------------------------------------------------ *)
(* C1                                                                  *)
(* ------------------------------------------------------------------ *)

\* C1: whatever the outcome of each step, no exception propagates past the
\* top-level entry point and the process exits with status 0.
C1_AlwaysExitsZero == pc = "exited" => exit_status = 0

(* ------------------------------------------------------------------ *)
(* C2                                                                  *)
(* ------------------------------------------------------------------ *)

\* C2: a successful update_folder_label on a document with a "../boxmux"
\* entry changes only the name of the first such entry: the array length,
\* the order, every other entry, the other keys of the matched entry and
\* every other top-level key are unchanged.
C2_RenameFrame ==
    \A n \in DOMAIN ufl_results :
        (ufl_results[n] = "ok" /\ TargetIndexes(FoldersOf(ws_hist[n])) # {}) =>
            LET before == FoldersOf(ws_hist[n])
                after  == FoldersOf(ws_hist[n + 1])
                m      == FirstTarget(before)
            IN  /\ HasFoldersArray(ws_hist[n + 1])
                /\ Len(after) = Len(before)
                /\ \A j \in DOMAIN before : j # m => after[j] = before[j]
                /\ Renamed(before[m], after[m], LabelPrefix \o full_version)
                /\ SameOtherKeys(JsonLoad(ws_hist[n].top),
                                 JsonLoad(ws_hist[n + 1].top))

\* A first call succeeded on a document whose two entries both have the
\* target path, under a settings key.
C2_Witness ==
    /\ CallReturned(1)
    /\ ufl_results[1] = "ok"
    /\ Cardinality(TargetIndexes(FoldersOf(ws_hist[1]))) = 2
    /\ Len(ws_hist[1].top) = 2

(* ------------------------------------------------------------------ *)
(* C3                                                                  *)
(* ------------------------------------------------------------------ *)

\* The folders array after call n is the array before it followed by the one
\* new entry {path, name}.
AppendedOne(n) ==
    /\ HasFoldersArray(ws_hist[n + 1])
    /\ FoldersOf(ws_hist[n + 1]) =
         FoldersOf(ws_hist[n]) \o
           << << <<"path", "../boxmux">>,
                 <<"name", "boxmux v" \o full_version>> >> >>

\* C3 as stated: on every document whose folders array has no "../boxmux"
\* entry, update_folder_label (its file operations not failing) yields the
\* prior array followed by exactly one new entry.
C3_AppendOnEveryDocument ==
    \A n \in DOMAIN ufl_results :
        ( /\ ufl_results[n] \notin IoFaults
          /\ HasFoldersArray(ws_hist[n])
          /\ TargetIndexes(FoldersOf(ws_hist[n])) = {} ) => AppendedOne(n)

\* C3 as amended: a successful update_folder_label on such a document yields
\* the prior array followed by exactly one new entry; the call fails, and
\* appends nothing, when an entry of the array has no path key.
C3_AppendOnSuccess ==
    \A n \in DOMAIN ufl_results :
        ( /\ HasFoldersArray(ws_hist[n])
          /\ TargetIndexes(FoldersOf(ws_hist[n])) = {} ) =>
            /\ ufl_results[n] = "ok" => AppendedOne(n)
            /\ (\E i \in DOMAIN FoldersOf(ws_hist[n]) :
                   ~DictHas(FoldersOf(ws_hist[n])[i], "path")) =>
                 /\ ufl_results[n] # "ok"
                 /\ ws_hist[n + 1] = ws_hist[n]

\* A first call appended to a non-empty array without a target entry.
C3_Witness ==
    /\ CallReturned(1)
    /\ ufl_results[1] = "ok"
    /\ HasFoldersArray(ws_hist[1])
    /\ TargetIndexes(FoldersOf(ws_hist[1])) = {}
    /\ Len(FoldersOf(ws_hist[1])) = 2
    /\ Len(FoldersOf(ws_hist[2])) = 3

(* ------------------------------------------------------------------ *)
(* C4                                                                  *)
(* ------------------------------------------------------------------ *)

\* C4: two calls in succession with the same version, neither hit by a fault
\* of the file system, leave the file as the first call left it.
C4_Idempotent ==
    \A n \in DOMAIN ufl_results :
        ( /\ CallReturned(n + 1)
          /\ ufl_results[n] \notin IoFaults
          /\ ufl_results[n + 1] \notin IoFaults ) =>
            ws_hist[n + 2] = ws_hist[n + 1]

\* Two successful calls on a document that had no target entry: the first
\* appended, and the second found what the first appended.
C4_Witness ==
    /\ CallReturned(2)
    /\ ufl_results[1] = "ok"
    /\ ufl_results[2] = "ok"
    /\ TargetIndexes(FoldersOf(ws_hist[1])) = {}
    /\ Len(FoldersOf(ws_hist[3])) = Len(FoldersOf(ws_hist[1])) + 1

(* ------------------------------------------------------------------ *)
(* C5                                                                  *)
(* ------------------------------------------------------------------ *)

UvFailed == uv_result \in {"open_fail", "write_fail", "stage_fail"}

UflFailed == CallReturned(1) /\ ufl_results[1] # "ok"

\* A failed update is swallowed: update_folder_label is called after a failed
\* update_version, and the run ends with status 0 after either failure.
RunContinues ==
    /\ UvFailed =>
         /\ pc \in {"update_folder_label", "ufl_scan", "ufl_write", "main_end", "exited"}
         /\ exit_status # 1
         /\ pc \in {"main_end", "exited"} =>
              \E i \in DOMAIN calls : calls[i].fn = "update_folder_label"
    /\ UflFailed =>
         /\ pc \in {"main_end", "exited"}
         /\ exit_status # 1

\* C5 as stated: when update_version fails at any step, version.txt and its
\* staged state are as before the call; when update_folder_label fails at any
\* step, the workspace file is as before the call; the run continues.
C5_FailedUpdateChangesNothing ==
    /\ UvFailed =>
         /\ version_file = initial.version_file
         /\ index = initial.index
    /\ UflFailed => workspace_file = ws_hist[1]
    /\ RunContinues

\* C5 as amended: a failure before the file is opened for writing, or of that
\* open, leaves the persisted state as it was; a failed staging command
\* leaves version.txt holding the new version line, with the staged state as
\* it was; a write that fails after the open leaves a truncated file; in
\* every case the run continues.
C5_FailedUpdateEffects ==
    /\ uv_result = "open_fail" =>
         /\ version_file = initial.version_file
         /\ index = initial.index
    /\ uv_result = "stage_fail" =>
         /\ version_file = full_version \o "\n"
         /\ index = initial.index
    /\ uv_result = "write_fail" =>
         /\ Len(version_file) <= Len(full_version)
         /\ version_file = SubSeq(full_version, 1, Len(version_file))
         /\ index = initial.index
    /\ UflFailed =>
         IF ufl_results[1] = "write_fail"
         THEN workspace_file.kind = "torn"
         ELSE workspace_file = ws_hist[1]
    /\ RunContinues

\* The staging command failed, then the scan of the workspace document
\* raised, and the process has exited.
C5_Witness ==
    /\ uv_result = "stage_fail"
    /\ ufl_results = <<"scan_fail">>
    /\ pc = "exited"

(* ------------------------------------------------------------------ *)
(* C6                                                                  *)
(* ------------------------------------------------------------------ *)

\* after relates to before as one run allows: the same length or one more
\* entry, at most one prior entry changed and only the first target entry,
\* never both a change and an append.
AtMostOneEffect(before, after) ==
    LET changed == { i \in DOMAIN before : i > Len(after) \/ after[i] # before[i] }
    IN  /\ Len(after) \in {Len(before), Len(before) + 1}
        /\ Cardinality(changed) <= 1
        /\ \A i \in changed :
             /\ TargetIndexes(before) # {}
             /\ i = FirstTarget(before)
        /\ ~(changed # {} /\ Len(after) = Len(before) + 1)

\* C6 as stated: whatever fails, the folders array on disk gains at most one
\* entry, has at most one prior entry changed (the first target entry), and
\* never both.
C6_ArrayOnDiskAlways ==
    HasFoldersArray(ws_hist[1]) =>
        /\ HasFoldersArray(workspace_file)
        /\ AtMostOneEffect(FoldersOf(ws_hist[1]), FoldersOf(workspace_file))

\* C6 as amended: the same, in every run whose write-back does not fail after
\* the workspace file was opened for writing; such a failure leaves the file
\* truncated, holding no folders array.
C6_ArrayOnDiskUnlessTorn ==
    HasFoldersArray(ws_hist[1]) =>
        IF CallReturned(1) /\ ufl_results[1] = "write_fail"
        THEN workspace_file.kind = "torn"
        ELSE /\ HasFoldersArray(workspace_file)
             /\ AtMostOneEffect(FoldersOf(ws_hist[1]), FoldersOf(workspace_file))

\* A run that has exited after renaming the first of two target entries.
C6_Witness ==
    /\ pc = "exited"
    /\ ufl_results = <<"ok">>
    /\ Cardinality(TargetIndexes(FoldersOf(ws_hist[1]))) = 2
    /\ FoldersOf(workspace_file) # FoldersOf(ws_hist[1])

(* ------------------------------------------------------------------ *)
(* C7                                                                  *)
(* ------------------------------------------------------------------ *)

\* The version each repository modelled gives, worked out by hand.
ExpectedVersion(r) ==
    IF r.tag = "v1" THEN "1.5.42"
    ELSE IF r.tag = "v12" THEN "12.0.0"
    ELSE IF r.tag = "v0" THEN "0.7.4"
    ELSE IF r.total = 3 THEN "0.3.2"
    ELSE "0.0.0"

\* The rev-list range the run asked git to count.
CountedRange ==
    { io[i].op : i \in { j \in DOMAIN io :
                           Len(io[j].op) > 20
                           /\ SubSeq(io[j].op, 1, 21) = "git rev-list --count " } }

\* C7: the version string is "<major>.<minor>.<patch>", major the tag without
\* its first character, minor the commit count (over all of head's commits
\* when the tag is "v0", else over those not reachable from the tag), patch
\* the change total, a failed query replaced by "v0", 0 and 0; minor and
\* patch are never negative.
C7_VersionString ==
    /\ pc # "get_tag_version" /\ exit_status # 1 =>
         major_version = (IF repo.tag = "" THEN "v0" ELSE repo.tag)
    /\ VersionBuilt =>
         /\ full_version = ExpectedVersion(repo)
         /\ minor_version >= 0
         /\ patch_version >= 0
         /\ minor_version = (IF major_version = "v0" THEN repo.total ELSE repo.since)
         /\ CountedRange =
              {IF major_version = "v0" THEN "git rev-list --count HEAD"
               ELSE "git rev-list --count " \o major_version \o "..HEAD"}

\* The run on the repository tagged v1, 5 commits after the tag, has exited.
C7_Witness ==
    /\ pc = "exited"
    /\ exit_status = 0
    /\ repo.tag = "v1"
    /\ full_version = "1.5.42"

(* ------------------------------------------------------------------ *)
(* C8                                                                  *)
(* ------------------------------------------------------------------ *)

\* C8: every run makes the five calls in the fixed order, each exactly once,
\* and passes the one version string to both updates.
C8_FiveStepsInOrder ==
    pc = "exited" =>
        /\ FnNames = << "get_tag_version", "get_commit_count_since_tag",
                        "get_total_changes", "update_version",
                        "update_folder_label" >>
        /\ calls[4].arg = full_version
        /\ calls[5].arg = full_version

(* ------------------------------------------------------------------ *)
(* C9                                                                  *)
(* ------------------------------------------------------------------ *)

WroteVersionFile == \E i \in DOMAIN io : io[i] = Io("open_w version.txt", "ok")

\* C9: a write that succeeds leaves version.txt holding the version and one
\* newline, whatever it held; staging is attempted only after that write,
\* with the file holding the new content, and never after a failed write.
C9_WriteThenStage ==
    /\ WroteVersionFile => version_file = full_version \o "\n"
    /\ \A i \in DOMAIN io :
         io[i].op = "git add version.txt" =>
             /\ io[i].arg = full_version \o "\n"
             /\ \E j \in 1..(i - 1) : io[j] = Io("open_w version.txt", "ok")
    /\ uv_result \in {"open_fail", "write_fail"} =>
         \A i \in DOMAIN io : io[i].op # "git add version.txt"

\* update_version succeeded over a version.txt that held another version.
C9_Witness ==
    /\ uv_result = "ok"
    /\ initial.version_file = "0.9.9\n"
    /\ index = full_version \o "\n"

(* ------------------------------------------------------------------ *)
(* C10                                                                 *)
(* ------------------------------------------------------------------ *)

\* The scan of the document in the file raises: no folders key, or an entry
\* without a path key that no target entry precedes.
ScanMustFail(file) ==
    /\ file.kind = "json"
    /\ \/ ~DictHas(JsonLoad(file.top), "folders")
       \/ /\ HasFoldersArray(file)
          /\ \E i \in DOMAIN FoldersOf(file) :
               /\ ~DictHas(FoldersOf(file)[i], "path")
               /\ \A j \in 1..(i - 1) : ~IsTarget(FoldersOf(file)[j])

\* C10: when the file is missing or unreadable, is not JSON, has no folders
\* key, or the scan reaches an entry without a path key, the workspace file
\* is never opened for writing and holds what it held.
C10_NoWriteBeforeScanDone ==
    ( \/ ws_hist[1].kind \in {"missing", "malformed"}
      \/ ScanMustFail(ws_hist[1])
      \/ (CallReturned(1) /\ ufl_results[1] = "read_error") ) =>
        /\ ~OpenedWorkspaceForWriting
        /\ workspace_file = ws_hist[1]
        /\ CallReturned(1) => ufl_results[1] \notin {"ok", "open_fail", "write_fail"}

\* The scan raised on an entry without a path key that stands before a
\* target entry.
C10_Witness ==
    /\ ufl_results = <<"scan_fail">>
    /\ HasFoldersArray(ws_hist[1])
    /\ TargetIndexes(FoldersOf(ws_hist[1])) = {2}
    /\ ~DictHas(FoldersOf(ws_hist[1])[1], "path")

====
